---- MODULE Spec2Model ----
(***************************************************************************)
(* Model of the Vimeo API wrapper: the request handlers of                 *)
(* app/api/routes/videos.py and the provider client of                     *)
(* app/services/vimeo_client.py.                                           *)
(*                                                                         *)
(* One inbound request is followed from its arrival to its response.  The  *)
(* handlers are coroutines: each await of a provider call is a position    *)
(* (pc) at which the provider's outcome is chosen nondeterministically.    *)
(*                                                                         *)
(* Encodings.  A Python str is a sequence of characters where the code     *)
(* looks inside it (uri, q), a URL is <<scheme, host, path>> with the      *)
(* empty string <<>>, and an opaque string otherwise.  An Optional value   *)
(* is <<>> (None) or <<v>>.  A JSON object / dict is a function whose      *)
(* DOMAIN is the set of keys present.                                      *)
(***************************************************************************)
EXTENDS Integers, Sequences, FiniteSets, TLC

VARIABLES pc, req, file, calls, outcomes, locals, resp

vars == <<pc, req, file, calls, outcomes, locals, resp>>

(***************************************************************************)
(* Bounds of the model.                                                    *)
(***************************************************************************)
MaxPage == 2
MaxFileLen == 2

(***************************************************************************)
(* Program constants.                                                      *)
(***************************************************************************)
PageMin == 1
PerPageMin == 1
PerPageMax == 100
QMinLength == 1
RequestTimeout == 30
UploadTimeout == 120
DefaultPage == 1
DefaultPerPage == 25
DefaultTotal == 0
DefaultDuration == 0
RedirectStatus == 307

VIMEO_BASE_URL == "https://api.vimeo.com"

None == <<>>
Some(v) == <<v>>

\* dict.get(key, default)
Get(d, k, default) == IF k \in DOMAIN d THEN d[k] ELSE default

\* dict.get(key) for an Optional field: None when the key is absent
GetOpt(d, k) == IF k \in DOMAIN d THEN Some(d[k]) ELSE None

EmptyDict == [k \in {} |-> 0]

(***************************************************************************)
(* str.split(sep): the list of the segments between the separators.        *)
(***************************************************************************)
RECURSIVE Split(_, _)
Split(s, sep) ==
    IF \A i \in 1..Len(s) : s[i] # sep
    THEN <<s>>
    ELSE LET i == CHOOSE k \in 1..Len(s) :
                     s[k] = sep /\ \A j \in 1..(k - 1) : s[j] # sep
         IN  <<SubSeq(s, 1, i - 1)>> \o Split(SubSeq(s, i + 1, Len(s)), sep)

\* s.split("/")[-1]
LastSegment(s) == LET parts == Split(s, "/") IN parts[Len(parts)]

(***************************************************************************)
(* Responses of the application.                                           *)
(***************************************************************************)
NoResponse ==
    [status |-> 0, detail |-> <<>>, location |-> None, body |-> None,
     unhandled |-> FALSE]

\* raise HTTPException(status_code, detail): FastAPI answers {"detail": ...}
HTTPException(status_code, detail) ==
    [status |-> status_code, detail |-> detail, location |-> None,
     body |-> Some([detail |-> detail]), unhandled |-> FALSE]

\* FastAPI's RequestValidationError for a rejected Query/File parameter
RequestValidationError == HTTPException(422, <<"validation error">>)

\* An exception no handler catches: the server answers 500
UnhandledError ==
    [status |-> 500, detail |-> <<"Internal Server Error">>, location |-> None,
     body |-> None, unhandled |-> TRUE]

JSONResponse(payload) ==
    [status |-> 200, detail |-> <<>>, location |-> None, body |-> Some(payload),
     unhandled |-> FALSE]

\* RedirectResponse(url): starlette's default status code, no body
RedirectResponse(url) ==
    [status |-> RedirectStatus, detail |-> <<>>, location |-> Some(url),
     body |-> None, unhandled |-> FALSE]

(***************************************************************************)
(* Outcomes of one provider call.                                          *)
(***************************************************************************)
HttpOutcome(status, text, json) ==
    [kind |-> "http", status |-> status, text |-> text, json |-> json]

NetworkError(what) ==
    [kind |-> "neterr", status |-> 0, text |-> what, json |-> EmptyDict]

\* response.raise_for_status() lets the 2xx statuses through
IsSuccess(status) == status >= 200 /\ status < 300

(***************************************************************************)
(* VimeoClient._request: the mapping of a provider outcome to the parsed   *)
(* JSON or to the HTTPException raised.                                    *)
(***************************************************************************)
\* Faulty variant: the 429 branch is missing, a rate limit falls to the 502
RequestNoRateLimit(outcome) ==
    IF outcome.kind = "neterr"
    THEN [ok |-> FALSE, json |-> EmptyDict,
          exc |-> HTTPException(503, <<"Service Unavailable">>)]
    ELSE IF IsSuccess(outcome.status)
    THEN [ok |-> TRUE, json |-> outcome.json, exc |-> NoResponse]
    ELSE [ok |-> FALSE, json |-> EmptyDict,
          exc |-> IF outcome.status = 401
                  THEN HTTPException(401, <<"Invalid Vimeo Token">>)
                  ELSE IF outcome.status = 403
                  THEN HTTPException(403, <<"Permission Denied">>)
                  ELSE IF outcome.status = 404
                  THEN HTTPException(404, <<"Resource Not Found">>)
                  ELSE HTTPException(502, <<"Vimeo API Error: ", outcome.text>>)]

Request(outcome) ==
    IF outcome.kind = "neterr"
    THEN [ok |-> FALSE, json |-> EmptyDict,
          exc |-> HTTPException(503, <<"Service Unavailable">>)]
    ELSE IF IsSuccess(outcome.status)
    THEN [ok |-> TRUE, json |-> outcome.json, exc |-> NoResponse]
    ELSE [ok |-> FALSE, json |-> EmptyDict,
          exc |-> IF outcome.status = 401
                  THEN HTTPException(401, <<"Invalid Vimeo Token">>)
                  ELSE IF outcome.status = 403
                  THEN HTTPException(403, <<"Permission Denied">>)
                  ELSE IF outcome.status = 404
                  THEN HTTPException(404, <<"Resource Not Found">>)
                  ELSE IF outcome.status = 429
                  THEN HTTPException(429, <<"Rate Limit Exceeded">>)
                  ELSE HTTPException(502, <<"Vimeo API Error: ", outcome.text>>)]

\* The call _request issues: client.request(method, base_url + endpoint, ...)
RequestCall(method, endpoint, payload) ==
    [method |-> method, url |-> <<VIMEO_BASE_URL>> \o endpoint,
     payload |-> payload, timeout |-> RequestTimeout]

(***************************************************************************)
(* Schemas (app/schemas/video.py): what pydantic accepts.                  *)
(***************************************************************************)
\* HttpUrl: an http(s) URL with a host; the empty string is rejected
HttpUrlValid(url) ==
    /\ Len(url) = 3
    /\ url[1] \in {"http", "https"}
    /\ url[2] # ""

\* Picture: active, type, sizes and resource_key are required
PictureValid(p) == {"active", "type", "sizes", "resource_key"} \subseteq DOMAIN p

\* Video: link must be an HttpUrl, pictures an Optional[Picture]
VideoValid(v) ==
    /\ HttpUrlValid(v.link)
    /\ (v.pictures # None => PictureValid(v.pictures[1]))

(***************************************************************************)
(* VimeoClient._normalize_video                                            *)
(***************************************************************************)
NormalizeFields(data) ==
    [id          |-> LastSegment(Get(data, "uri", <<>>)),
     name        |-> Get(data, "name", "Untitled"),
     description |-> GetOpt(data, "description"),
     duration    |-> Get(data, "duration", DefaultDuration),
     link        |-> Get(data, "link", <<>>),
     embed_html  |-> GetOpt(Get(data, "embed", EmptyDict), "html"),
     pictures    |-> GetOpt(data, "pictures")]

\* Video(...) raises a ValidationError when the fields do not fit the schema
NormalizeVideo(data) ==
    LET v == NormalizeFields(data)
    IN  [ok |-> VideoValid(v), video |-> v]

(***************************************************************************)
(* The provider's side: the records, bodies and outcomes it may produce.   *)
(***************************************************************************)
Uri123 == <<"/", "v", "i", "d", "e", "o", "s", "/", "1", "2", "3">>
Uri123Slash == Uri123 \o <<"/">>
Uri456 == <<"/", "v", "i", "d", "e", "o", "s", "/", "4", "5", "6">>
Link123 == <<"https", "vimeo.com", "/123">>
Link456 == <<"https", "vimeo.com", "/456">>
UploadLink == <<"https", "upload.vimeo.com", "/ticket/abc">>
Pictures1 ==
    [active |-> TRUE, type |-> "custom", sizes |-> <<>>, resource_key |-> "k1"]

RecFull ==
    [uri |-> Uri123, name |-> "Holiday", description |-> "At the sea",
     duration |-> 60, link |-> Link123, embed |-> [html |-> "<iframe>"],
     pictures |-> Pictures1]
RecBare == [uri |-> Uri123, link |-> Link123]
RecEmbedNoHtml ==
    [uri |-> Uri456, name |-> "Clip", link |-> Link456, embed |-> EmptyDict]
RecNoLink == [uri |-> Uri123, name |-> "Holiday"]
RecNoUri == [name |-> "Holiday", link |-> Link123]
RecTrailingSlash == [uri |-> Uri123Slash, link |-> Link123]

VideoRecords ==
    {RecFull, RecBare, RecEmbedNoHtml, RecNoLink, RecNoUri, RecTrailingSlash}

DataLists == {<<>>, <<RecFull>>, <<RecBare, RecEmbedNoHtml>>, <<RecNoLink>>}

\* The paging fields a listing body may carry: none, or the provider's own
PagingFields ==
    {EmptyDict} \cup
    {[page |-> p, per_page |-> n, total |-> 7] :
         p \in 1..MaxPage, n \in {1, 10, 25, 100}}

ListBodies ==
    {pg @@ [data |-> d] : pg \in PagingFields, d \in DataLists}
        \cup PagingFields

UploadObjects == {EmptyDict, [upload_link |-> UploadLink], [upload_link |-> <<>>]}

TicketBodies ==
    {u @@ l @@ up : u \in {EmptyDict, [uri |-> Uri456], [uri |-> Uri123Slash]},
                    l \in {EmptyDict, [link |-> Link456]},
                    up \in {EmptyDict} \cup {[upload |-> o] : o \in UploadObjects}}

UpstreamTexts == {"bad request", "server down"}
ErrorStatuses == {400, 401, 403, 404, 429, 500, 503}
NetworkErrors == {NetworkError("timeout"), NetworkError("connect")}

\* What a provider call may come back with, other than a 2xx JSON body
FailureOutcomes ==
    {HttpOutcome(s, t, EmptyDict) : s \in ErrorStatuses, t \in UpstreamTexts}
        \cup NetworkErrors

SuccessOutcomes(bodies) == {HttpOutcome(200, "", b) : b \in bodies}

\* What a byte transfer (PATCH or PUT to the upload link) may come back with
TransferStatuses == {200, 201, 202, 204, 404, 500}
TransferOutcomes ==
    {HttpOutcome(s, "", EmptyDict) : s \in TransferStatuses} \cup NetworkErrors

(***************************************************************************)
(* The inbound requests.                                                   *)
(***************************************************************************)
Pages == {None} \cup {Some(p) : p \in 0..MaxPage}
PerPages == {None} \cup {Some(n) : n \in {0, 1, 10, 100, 101}}
Sorts == {None, Some("date"), Some("bogus")}
SortValues == {"date", "alphabetical", "duration", "last_user_action"}
Queries == {None, Some(<<>>), Some(<<" ">>), Some(<<" ", " ">>),
            Some(<<"c", "a", "t">>)}
VideoIds == {"123", "456"}
Modes == {None, Some("json"), Some("redirect"), Some("bogus")}
ModeValues == {"json", "redirect"}

RECURSIVE SeqsUpTo(_, _)
SeqsUpTo(S, n) ==
    IF n = 0 THEN {<<>>}
    ELSE LET shorter == SeqsUpTo(S, n - 1)
         IN  shorter \cup {Append(s, b) : s \in shorter, b \in S}

FileContents == SeqsUpTo({"x", "y"}, MaxFileLen)
Files == {None} \cup {Some(c) : c \in FileContents}

\* Query(default, ...): the default stands in for an omitted parameter
QueryValue(param, default) == IF param = None THEN default ELSE param[1]

\* Query(ge=1) / Query(ge=1, le=100)
PageValid(page) == page >= PageMin
PerPageValid(per_page) == per_page >= PerPageMin /\ per_page <= PerPageMax

NoLocals ==
    [size |-> 0, upload_link |-> None, video_uri |-> None, video_link |-> None,
     content |-> <<>>]

NoRequest == [kind |-> "none"]

Init ==
    /\ pc = "idle"
    /\ req = NoRequest
    /\ file = [content |-> <<>>, pos |-> 0]
    /\ calls = <<>>
    /\ outcomes = <<>>
    /\ locals = NoLocals
    /\ resp = NoResponse

\* The handler ends: its response (or the exception it raised) goes out
Respond(r) ==
    /\ resp' = r
    /\ pc' = "done"

(***************************************************************************)
(* get_videos / search_videos, after the provider answered (lines 75-81,   *)
(* 87-93): normalize every item and build the VideoList.                   *)
(***************************************************************************)
VideoListResult(data) ==
    LET items == Get(data, "data", <<>>)
        norm  == [i \in 1..Len(items) |-> NormalizeVideo(items[i])]
    IN  IF \E i \in 1..Len(items) : ~norm[i].ok
        THEN UnhandledError
        ELSE JSONResponse(
                 [data     |-> [i \in 1..Len(items) |-> norm[i].video],
                  page     |-> Get(data, "page", DefaultPage),
                  per_page |-> Get(data, "per_page", DefaultPerPage),
                  total    |-> Get(data, "total", DefaultTotal)])

(***************************************************************************)
(* GET /videos : list_videos -> VimeoClient.get_videos                     *)
(***************************************************************************)
ListVideos(page_q, per_page_q, sort_q) ==
    LET page     == QueryValue(page_q, DefaultPage)
        per_page == QueryValue(per_page_q, DefaultPerPage)
        params   == [page |-> page, per_page |-> per_page]
                        @@ (IF sort_q # None /\ sort_q[1] # ""
                            THEN [sort |-> sort_q[1]] ELSE EmptyDict)
    IN  /\ pc = "idle"
        /\ req' = [kind |-> "list", page |-> page, per_page |-> per_page,
                   sort |-> sort_q]
        /\ IF /\ PageValid(page)
              /\ PerPageValid(per_page)
              /\ (sort_q # None => sort_q[1] \in SortValues)
           THEN /\ calls' = <<RequestCall("GET", <<"/me/videos">>, params)>>
                /\ pc' = "list_wait"
                /\ UNCHANGED resp
           ELSE /\ Respond(RequestValidationError)
                /\ UNCHANGED calls
        /\ UNCHANGED <<file, outcomes, locals>>

GetVideosReturn(outcome) ==
    /\ pc = "list_wait"
    /\ outcomes' = Append(outcomes, outcome)
    /\ LET r == Request(outcome)
       IN  IF r.ok
           THEN Respond(VideoListResult(r.json))
           ELSE Respond(r.exc)
    /\ UNCHANGED <<req, file, calls, locals>>

(***************************************************************************)
(* GET /videos/search : search_videos -> VimeoClient.search_videos         *)
(***************************************************************************)
\* Query(..., min_length=1): q is required and at least one character long
QValid(q) == q # None /\ Len(q[1]) >= QMinLength

SearchVideos(q, page_q, per_page_q) ==
    LET page     == QueryValue(page_q, DefaultPage)
        per_page == QueryValue(per_page_q, DefaultPerPage)
    IN  /\ pc = "idle"
        /\ req' = [kind |-> "search", q |-> q, page |-> page,
                   per_page |-> per_page]
        /\ IF QValid(q) /\ PageValid(page) /\ PerPageValid(per_page)
           THEN /\ calls' = <<RequestCall("GET", <<"/me/videos">>,
                                [query |-> q[1], page |-> page,
                                 per_page |-> per_page])>>
                /\ pc' = "search_wait"
                /\ UNCHANGED resp
           ELSE /\ Respond(RequestValidationError)
                /\ UNCHANGED calls
        /\ UNCHANGED <<file, outcomes, locals>>

SearchVideosReturn(outcome) ==
    /\ pc = "search_wait"
    /\ outcomes' = Append(outcomes, outcome)
    /\ LET r == Request(outcome)
       IN  IF r.ok
           THEN Respond(VideoListResult(r.json))
           ELSE Respond(r.exc)
    /\ UNCHANGED <<req, file, calls, locals>>

(***************************************************************************)
(* GET /videos/{video_id}/play : play_video -> VimeoClient.get_video       *)
(***************************************************************************)
PlayVideo(video_id, mode_q) ==
    LET mode == QueryValue(mode_q, "json")
    IN  /\ pc = "idle"
        /\ req' = [kind |-> "play", video_id |-> video_id, mode |-> mode,
                   mode_q |-> mode_q]
        /\ IF mode \in ModeValues
           THEN /\ calls' = <<RequestCall("GET", <<"/videos/", video_id>>,
                                          EmptyDict)>>
                /\ pc' = "play_wait"
                /\ UNCHANGED resp
           ELSE /\ Respond(RequestValidationError)
                /\ UNCHANGED calls
        /\ UNCHANGED <<file, outcomes, locals>>

\* The response play_video builds from the normalized video
PlayResponse(video, mode) ==
    IF mode = "redirect"
    THEN RedirectResponse(video.link)
    ELSE JSONResponse([link |-> video.link, embed_html |-> video.embed_html])

GetVideoReturn(outcome) ==
    /\ pc = "play_wait"
    /\ outcomes' = Append(outcomes, outcome)
    /\ LET r == Request(outcome)
       IN  IF ~r.ok
           THEN Respond(r.exc)
           ELSE LET n == NormalizeVideo(r.json)
                IN  IF ~n.ok
                    THEN Respond(UnhandledError)
                    ELSE Respond(PlayResponse(n.video, req.mode))
    /\ UNCHANGED <<req, file, calls, locals>>

(***************************************************************************)
(* The uploaded file object (BinaryIO).                                    *)
(***************************************************************************)
\* file.seek(0, 2): to the end of the stream
SeekEnd(f) == [f EXCEPT !.pos = Len(f.content)]

\* file.seek(0)
SeekStart(f) == [f EXCEPT !.pos = 0]

\* file.tell()
Tell(f) == f.pos

\* file.read(): everything from the current position on
ReadAll(f) == SubSeq(f.content, f.pos + 1, Len(f.content))

AfterRead(f) == [f EXCEPT !.pos = Len(f.content)]

(***************************************************************************)
(* POST /videos/upload : upload_video -> VimeoClient.upload_video          *)
(***************************************************************************)
\* Faulty variant: the declared size is one more than the stream's length
UploadVideoSizeOffByOne(upload) ==
    /\ pc = "idle"
    /\ req' = [kind |-> "upload", file |-> upload]
    /\ IF upload = None
       THEN /\ Respond(RequestValidationError)
            /\ UNCHANGED <<file, calls, locals>>
       ELSE LET f0   == [content |-> upload[1], pos |-> 0]
                size == Tell(SeekEnd(f0)) + 1
                body == [upload |-> [approach |-> "post", size |-> size],
                         name |-> "Uploaded via API"]
            IN  /\ file' = SeekStart(SeekEnd(f0))
                /\ locals' = [locals EXCEPT !.size = size]
                /\ calls' = <<RequestCall("POST", <<"/me/videos">>,
                                          [json |-> body])>>
                /\ pc' = "ticket_wait"
                /\ UNCHANGED resp
    /\ UNCHANGED outcomes

\* Lines 72-76 of the handler, then the ticket request (lines 106-113)
UploadVideo(upload) ==
    /\ pc = "idle"
    /\ req' = [kind |-> "upload", file |-> upload]
    /\ IF upload = None
       THEN /\ Respond(RequestValidationError)
            /\ UNCHANGED <<file, calls, locals>>
       ELSE LET f0   == [content |-> upload[1], pos |-> 0]
                size == Tell(SeekEnd(f0))
                body == [upload |-> [approach |-> "post", size |-> size],
                         name |-> "Uploaded via API"]
            IN  /\ file' = SeekStart(SeekEnd(f0))
                /\ locals' = [locals EXCEPT !.size = size]
                /\ calls' = <<RequestCall("POST", <<"/me/videos">>,
                                          [json |-> body])>>
                /\ pc' = "ticket_wait"
                /\ UNCHANGED resp
    /\ UNCHANGED outcomes

\* `if not upload_link`: None and the empty string are both falsy
Falsy(opt) == opt = None \/ opt[1] = <<>>

PatchHeaders ==
    [TusResumable |-> "1.0.0", UploadOffset |-> "0",
     ContentType |-> "application/offset+octet-stream"]

PutHeaders == [ContentType |-> "video/mp4"]

TransferCall(method, upload_link, content, headers) ==
    [method |-> method, url |-> upload_link,
     payload |-> [content |-> content, headers |-> headers],
     timeout |-> UploadTimeout]

\* Lines 113-141: the ticket came back; read the file and start the PATCH
UploadTicketReturn(outcome) ==
    /\ pc = "ticket_wait"
    /\ outcomes' = Append(outcomes, outcome)
    /\ LET r == Request(outcome)
       IN  IF ~r.ok
           THEN /\ Respond(r.exc)
                /\ UNCHANGED <<file, calls, locals>>
           ELSE LET ticket      == r.json
                    upload_link == GetOpt(Get(ticket, "upload", EmptyDict),
                                          "upload_link")
                    video_uri   == GetOpt(ticket, "uri")
                    video_link  == GetOpt(ticket, "link")
                    content     == ReadAll(file)
                IN  IF Falsy(upload_link)
                    THEN /\ Respond(HTTPException(500,
                               <<"Failed to retrieve upload link from Vimeo">>))
                         /\ locals' = [locals EXCEPT
                                           !.upload_link = upload_link,
                                           !.video_uri = video_uri,
                                           !.video_link = video_link]
                         /\ UNCHANGED <<file, calls>>
                    ELSE /\ locals' = [locals EXCEPT
                                           !.upload_link = upload_link,
                                           !.video_uri = video_uri,
                                           !.video_link = video_link,
                                           !.content = content]
                         /\ file' = AfterRead(file)
                         /\ calls' = Append(calls,
                                TransferCall("PATCH", upload_link[1], content,
                                             PatchHeaders))
                         /\ pc' = "patch_wait"
                         /\ UNCHANGED resp
    /\ UNCHANGED req

\* Line 159: whatever the transfer block raises becomes this
UploadFailed == HTTPException(502, <<"Upload to Vimeo Server failed">>)

\* Lines 161-165: the UploadResponse, built after the transfer block
UploadResult(l) ==
    IF l.video_uri = None
    THEN UnhandledError
    ELSE IF l.video_link = None \/ ~HttpUrlValid(l.video_link[1])
    THEN UnhandledError
    ELSE JSONResponse([video_id |-> LastSegment(l.video_uri[1]),
                       link     |-> l.video_link[1],
                       status   |-> "uploaded_pending_transcode"])

\* if upload_resp.status_code not in [200, 201, 204]
NeedsFallback(status) == status \notin {200, 201, 204}

\* Faulty variant: the result of the PATCH is final, there is no fallback
UploadPatchReturnNoFallback(outcome) ==
    /\ pc = "patch_wait"
    /\ outcomes' = Append(outcomes, outcome)
    /\ IF outcome.kind = "neterr" \/ ~IsSuccess(outcome.status)
       THEN Respond(UploadFailed)
       ELSE Respond(UploadResult(locals))
    /\ UNCHANGED <<req, file, locals, calls>>

\* Lines 133-155: the PATCH came back
UploadPatchReturn(outcome) ==
    /\ pc = "patch_wait"
    /\ outcomes' = Append(outcomes, outcome)
    /\ IF outcome.kind = "neterr"
       THEN /\ Respond(UploadFailed)
            /\ UNCHANGED calls
       ELSE IF NeedsFallback(outcome.status)
       THEN /\ calls' = Append(calls,
                   TransferCall("PUT", locals.upload_link[1], locals.content,
                                PutHeaders))
            /\ pc' = "put_wait"
            /\ UNCHANGED resp
       ELSE IF ~IsSuccess(outcome.status)
       THEN /\ Respond(UploadFailed)
            /\ UNCHANGED calls
       ELSE /\ Respond(UploadResult(locals))
            /\ UNCHANGED calls
    /\ UNCHANGED <<req, file, locals>>

\* Faulty variant: a failed PUT is tried again
UploadPutReturnRetry(outcome) ==
    /\ pc = "put_wait"
    /\ outcomes' = Append(outcomes, outcome)
    /\ IF outcome.kind = "neterr" \/ ~IsSuccess(outcome.status)
       THEN IF Len(calls) < 4
            THEN /\ calls' = Append(calls,
                        TransferCall("PUT", locals.upload_link[1],
                                     locals.content, PutHeaders))
                 /\ UNCHANGED <<pc, resp>>
            ELSE /\ Respond(UploadFailed)
                 /\ UNCHANGED calls
       ELSE /\ Respond(UploadResult(locals))
            /\ UNCHANGED calls
    /\ UNCHANGED <<req, file, locals>>

\* Lines 153-159: the fallback PUT came back
UploadPutReturn(outcome) ==
    /\ pc = "put_wait"
    /\ outcomes' = Append(outcomes, outcome)
    /\ IF outcome.kind = "neterr" \/ ~IsSuccess(outcome.status)
       THEN Respond(UploadFailed)
       ELSE Respond(UploadResult(locals))
    /\ UNCHANGED <<req, file, locals, calls>>

Next ==
    \/ \E p \in Pages, n \in PerPages, s \in Sorts : ListVideos(p, n, s)
    \/ \E o \in FailureOutcomes \cup SuccessOutcomes(ListBodies) : GetVideosReturn(o)
    \/ \E q \in Queries, p \in Pages, n \in PerPages : SearchVideos(q, p, n)
    \/ \E o \in FailureOutcomes \cup SuccessOutcomes(ListBodies) : SearchVideosReturn(o)
    \/ \E id \in VideoIds, m \in Modes : PlayVideo(id, m)
    \/ \E o \in FailureOutcomes \cup SuccessOutcomes(VideoRecords) : GetVideoReturn(o)
    \/ \E f \in Files : UploadVideo(f)
    \/ \E o \in FailureOutcomes \cup SuccessOutcomes(TicketBodies) : UploadTicketReturn(o)
    \/ \E o \in TransferOutcomes : UploadPatchReturn(o)
    \/ \E o \in TransferOutcomes : UploadPutReturn(o)

Spec == Init /\ [][Next]_vars

(***************************************************************************)
(* Vocabulary of the properties.                                           *)
(***************************************************************************)
Done == pc = "done"

Succeeded(o) == o.kind = "http" /\ IsSuccess(o.status)

\* The provider call made through _request is the first call of a request
WrapperAnswered == Len(outcomes) >= 1
WrapperFailed == WrapperAnswered /\ ~Succeeded(outcomes[1])
WrapperSucceeded == WrapperAnswered /\ Succeeded(outcomes[1])

\* The status the error taxonomy assigns to a failed provider call
TaxonomyStatus(o) ==
    IF o.kind = "neterr" THEN 503
    ELSE IF o.status \in {401, 403, 404, 429} THEN o.status
    ELSE 502

\* seg is what follows the last "/" of uri (all of uri when it has none)
IsTrailingSegment(seg, uri) ==
    \E k \in 0..Len(uri) :
        /\ seg = SubSeq(uri, k + 1, Len(uri))
        /\ \A i \in 1..Len(seg) : seg[i] # "/"
        /\ (k > 0 => uri[k] = "/")

\* q is missing, empty or made of blanks only
QBlank(q) == q = None \/ \A i \in 1..Len(q[1]) : q[1][i] = " "

IsUpload == req.kind = "upload"
UploadWithFile == IsUpload /\ req.file # None

\* The outcomes of the PATCH and of the PUT, once they are in
PatchAnswered == IsUpload /\ Len(outcomes) >= 2
PutAnswered == IsUpload /\ Len(outcomes) >= 3

(***************************************************************************)
(* C1: a provider call made through the request wrapper that fails maps    *)
(* to the response status of the taxonomy (401, 403, 404, 429 kept, any    *)
(* other error status 502 with the upstream text in the detail, a network  *)
(* failure 503), and the call is made once, with no retry.                 *)
(***************************************************************************)
C1_ErrorMapping ==
    WrapperFailed =>
        /\ Done
        /\ resp.status = TaxonomyStatus(outcomes[1])
        /\ (resp.status = 502 =>
                \E i \in 1..Len(resp.detail) : resp.detail[i] = outcomes[1].text)
        /\ Len(calls) = 1
        /\ Len(outcomes) = 1

C1_Witness ==
    /\ Done
    /\ req.kind = "play"
    /\ WrapperFailed
    /\ outcomes[1].status = 429
    /\ resp.status = 429
    /\ Len(calls) = 1

(***************************************************************************)
(* C2: a search whose q is missing, empty or blank, and an upload without  *)
(* a file part, are answered 400 and make no provider call.                *)
(***************************************************************************)
C2_InvalidInputIs400 ==
    (\/ (req.kind = "search" /\ QBlank(req.q))
     \/ (IsUpload /\ req.file = None)) =>
        /\ Len(calls) = 0
        /\ (Done => resp.status = 400)

(***************************************************************************)
(* C3: when the lookup of the video succeeds, play answers 302 with the    *)
(* Location header equal to the record's link and no body in redirect      *)
(* mode, and 200 with exactly link and embed_html in json mode (embed_html *)
(* null when the provider record has no embed data).                       *)
(***************************************************************************)
C3_PlayResponse ==
    (Done /\ req.kind = "play" /\ WrapperSucceeded
          /\ NormalizeVideo(outcomes[1].json).ok) =>
        LET data == outcomes[1].json
        IN  IF req.mode = "redirect"
            THEN /\ resp.status = 302
                 /\ resp.location = Some(data.link)
                 /\ resp.body = None
            ELSE /\ resp.status = 200
                 /\ resp.body # None
                 /\ DOMAIN resp.body[1] = {"link", "embed_html"}
                 /\ resp.body[1].link = data.link
                 /\ ("embed" \notin DOMAIN data => resp.body[1].embed_html = None)

(***************************************************************************)
(* C4: for a valid page and per_page the list endpoint forwards the two    *)
(* values to the provider's listing call, and the page and per_page of the *)
(* response envelope equal the requested values whatever the provider's    *)
(* response carries or omits.                                              *)
(***************************************************************************)
C4_ListEchoesPaging ==
    (req.kind = "list" /\ Len(calls) >= 1) =>
        /\ calls[1].payload.page = req.page
        /\ calls[1].payload.per_page = req.per_page
        /\ (Done /\ resp.status = 200 =>
                /\ resp.body[1].page = req.page
                /\ resp.body[1].per_page = req.per_page)

(***************************************************************************)
(* C5 as stated: list, search and play make at most one provider call and  *)
(* an upload at most two, and a request gets exactly one response.         *)
(***************************************************************************)
C5_AtMostTwoCalls ==
    /\ Len(calls) <= (IF IsUpload THEN 2 ELSE 1)
    /\ (Done <=> resp # NoResponse)

(***************************************************************************)
(* C5 amended: list, search and play make at most one provider call and an *)
(* upload at most three (the ticket, the first transfer attempt and the    *)
(* one fallback attempt); a request gets exactly one response, when its    *)
(* handler ends, and every call made is answered before the next is made.  *)
(***************************************************************************)
C5_BoundedCalls ==
    /\ Len(calls) <= (IF IsUpload THEN 3 ELSE 1)
    /\ (Done <=> resp # NoResponse)
    /\ Len(outcomes) <= Len(calls)
    /\ Len(calls) <= Len(outcomes) + 1
    /\ (Done => Len(outcomes) = Len(calls))

C5_Witness ==
    /\ Done
    /\ IsUpload
    /\ Len(calls) = 3
    /\ calls[1].method = "POST" /\ calls[2].method = "PATCH"
    /\ calls[3].method = "PUT"
    /\ resp.status = 502

(***************************************************************************)
(* C6 as stated: when the PATCH comes back with a status other than 200,   *)
(* 201 or 204, one PUT with the same content goes to the same upload link, *)
(* and the upload fails if the PUT is non-success (not 200, 201 or 204)    *)
(* as well; after a PATCH answered 200, 201 or 204 there is no fallback;   *)
(* there is never a third transfer attempt.                                *)
(***************************************************************************)
C6_FallbackOnce ==
    /\ (PatchAnswered /\ outcomes[2].kind = "http"
            /\ outcomes[2].status \notin {200, 201, 204}) =>
           /\ Len(calls) = 3
           /\ calls[3].method = "PUT" /\ calls[2].method = "PATCH"
           /\ calls[3].url = calls[2].url
           /\ calls[3].payload.content = calls[2].payload.content
           /\ (PutAnswered /\ ~(outcomes[3].kind = "http"
                                /\ outcomes[3].status \in {200, 201, 204}) =>
                   Done /\ resp.status # 200)
    /\ (PatchAnswered /\ outcomes[2].kind = "http"
            /\ outcomes[2].status \in {200, 201, 204}) =>
           Len(calls) = 2
    /\ Len(calls) <= 3

(***************************************************************************)
(* C6 amended: when the PATCH comes back with a status other than 200, 201 *)
(* or 204, one PUT with the same content goes to the same upload link, and *)
(* the upload fails (502) if the PUT fails at the network level or comes   *)
(* back with a status outside 2xx; a PUT answered with any 2xx status      *)
(* (202 included) does not fail the transfer; after a PATCH answered 200,  *)
(* 201 or 204 there is no fallback; there is never a third transfer        *)
(* attempt.                                                                *)
(***************************************************************************)
C6_FallbackOnceAmended ==
    /\ (PatchAnswered /\ outcomes[2].kind = "http"
            /\ outcomes[2].status \notin {200, 201, 204}) =>
           /\ Len(calls) = 3
           /\ calls[3].method = "PUT" /\ calls[2].method = "PATCH"
           /\ calls[3].url = calls[2].url
           /\ calls[3].payload.content = calls[2].payload.content
           /\ (PutAnswered /\ ~Succeeded(outcomes[3]) =>
                   Done /\ resp = UploadFailed)
           /\ (PutAnswered /\ Succeeded(outcomes[3]) =>
                   Done /\ resp # UploadFailed)
    /\ (PatchAnswered /\ outcomes[2].kind = "http"
            /\ outcomes[2].status \in {200, 201, 204}) =>
           Len(calls) = 2
    /\ Len(calls) <= 3

C6_Witness ==
    /\ Done
    /\ PutAnswered
    /\ outcomes[2].status = 500
    /\ outcomes[3].status = 404
    /\ calls[3].method = "PUT"
    /\ Len(calls[3].payload.content) >= 1
    /\ resp = UploadFailed

(***************************************************************************)
(* C7: every provider call has a timeout, and an upload whose transfer     *)
(* call (PATCH or PUT) times out or fails at the network level is answered *)
(* 503, as a timed-out metadata call is.                                   *)
(***************************************************************************)
C7_TransferTimeoutIs503 ==
    /\ \A i \in 1..Len(calls) : calls[i].timeout > 0
    /\ (Done /\ PatchAnswered /\ outcomes[Len(outcomes)].kind = "neterr") =>
           resp.status = 503

(***************************************************************************)
(* C8: once the upload request passed validation and the ticket call was   *)
(* answered 2xx, every failure of the upload (no upload link, no uri or    *)
(* link in the ticket, a transfer whose last attempt failed) is answered   *)
(* 502, never 500 and never by an unhandled exception.                     *)
(***************************************************************************)
C8_UploadFailuresAre502 ==
    (Done /\ UploadWithFile /\ WrapperSucceeded /\ resp.status # 200) =>
        /\ resp.status = 502
        /\ ~resp.unhandled

(***************************************************************************)
(* C9: an upload with a file, whose ticket was created (with its uri and   *)
(* link) and whose transfer ended with a success status, is answered 200   *)
(* with video_id the trailing "/"-separated segment of the ticket's uri,   *)
(* link the ticket's link and status the fixed constant; the size declared *)
(* in the ticket request is the byte length of the file, and every         *)
(* transfer attempt carries the whole content of the file.                 *)
(***************************************************************************)
C9_UploadResult ==
    /\ (UploadWithFile /\ Len(calls) >= 1) =>
           /\ calls[1].method = "POST"
           /\ calls[1].payload.json.upload.size = Len(req.file[1])
           /\ \A i \in 2..Len(calls) : calls[i].payload.content = req.file[1]
    /\ (Done /\ UploadWithFile /\ PatchAnswered /\ WrapperSucceeded
            /\ Succeeded(outcomes[Len(outcomes)])
            /\ {"uri", "link"} \subseteq DOMAIN outcomes[1].json
            /\ HttpUrlValid(outcomes[1].json.link)) =>
           /\ resp.status = 200
           /\ resp.body # None
           /\ IsTrailingSegment(resp.body[1].video_id, outcomes[1].json.uri)
           /\ resp.body[1].link = outcomes[1].json.link
           /\ resp.body[1].status = "uploaded_pending_transcode"

C9_Witness ==
    /\ Done
    /\ UploadWithFile
    /\ Len(req.file[1]) >= 2
    /\ Len(calls) = 3
    /\ calls[3].payload.content = req.file[1]
    /\ calls[1].payload.json.upload.size = Len(req.file[1])
    /\ resp.status = 200
    /\ outcomes[1].json.uri = Uri456
    /\ resp.body[1].video_id = <<"4", "5", "6">>

(***************************************************************************)
(* C10: normalization is total: whatever optional fields the provider's    *)
(* record lacks, the request does not fail, the id is the last segment of  *)
(* the uri split on "/", embed_html is embed.html when present and absent  *)
(* otherwise, name defaults to the placeholder, duration to 0, description *)
(* and pictures to absent.                                                 *)
(***************************************************************************)
C10_RecordNormalized(data, v) ==
    /\ IsTrailingSegment(v.id, Get(data, "uri", <<>>))
    /\ v.embed_html = GetOpt(Get(data, "embed", EmptyDict), "html")
    /\ v.name = Get(data, "name", "Untitled")
    /\ v.duration = Get(data, "duration", 0)
    /\ v.description = GetOpt(data, "description")
    /\ v.pictures = GetOpt(data, "pictures")

C10_NormalizationTotal ==
    (Done /\ req.kind \in {"list", "search"} /\ WrapperSucceeded) =>
        LET items == Get(outcomes[1].json, "data", <<>>)
        IN  /\ ~resp.unhandled
            /\ resp.status = 200
            /\ Len(resp.body[1].data) = Len(items)
            /\ \A i \in 1..Len(items) :
                   C10_RecordNormalized(items[i], resp.body[1].data[i])

====
